---- MODULE Spec2Model ----
(***************************************************************************)
(* A model of the Playdate API client (src/src/index.js) and of the key    *)
(* unwrap routine (src/src/decrypt.js).                                    *)
(*                                                                         *)
(* JavaScript values are records [t, s]: t is the type ("undefined",       *)
(* "null", "str") and s the characters of a string (a sequence of          *)
(* one-character strings), <<>> for the other types.  An asynchronous      *)
(* method call is a record of `calls`; one action runs the synchronous     *)
(* part of a method up to its next network request, and one action per     *)
(* awaited request runs the continuation when the response arrives.        *)
(***************************************************************************)
EXTENDS Integers, Sequences, FiniteSets, TLC

VARIABLES
  token,            \* this.token
  loginToken,       \* this.loginToken
  headers,          \* this.headers
  idempotencyKey,   \* this.idempotencyKey
  digit,            \* the binding of the free identifier `digit` (index.js:169)
  calls,            \* the method invocations on the client, by slot
  item,             \* decrypt.js: the catalog entry handed to getDecryptionKey
  unlockKey,        \* decrypt.js: the unlock key handed to getDecryptionKey
  origin,           \* how `item` was produced (history, for the claims)
  unwrap            \* decrypt.js: the progress and outcome of getDecryptionKey

clientVars == <<token, loginToken, headers, idempotencyKey>>
cryptoVars == <<item, unlockKey, origin, unwrap>>
vars == <<token, loginToken, headers, idempotencyKey, digit, calls,
          item, unlockKey, origin, unwrap>>

(***************************************************************************)
(* JavaScript values                                                       *)
(***************************************************************************)
Undefined == [t |-> "undefined", s |-> <<>>]
Null == [t |-> "null", s |-> <<>>]
Str(chars) == [t |-> "str", s |-> chars]

\* ToBoolean on the values the client holds: only a non-empty string is truthy.
Truthy(v) == v.t = "str" /\ v.s # <<>>

\* ToString, as a template literal or a header value applies it.
ToStr(v) ==
  CASE v.t = "undefined" -> <<"u", "n", "d", "e", "f", "i", "n", "e", "d">>
    [] v.t = "null" -> <<"n", "u", "l", "l">>
    [] OTHER -> v.s

TokenPrefix == <<"T", "o", "k", "e", "n", " ">>

\* { Authorization: `Token ${this.token}`, "Content-Type": "application/json" }
MakeHeaders(tok) ==
  [Authorization |-> Str(TokenPrefix \o ToStr(tok)),
   ContentType |-> "application/json"]

LoggedIn == Str(<<"l", "o", "g", "g", "e", "d", "+", "i", "n">>)

(***************************************************************************)
(* Serial numbers                                                          *)
(***************************************************************************)
Digits == {"0", "1", "2", "3", "4", "5", "6", "7", "8", "9"}
SerialPrefix == <<"P", "D", "U", "1", "-", "Y">>

\* serial.match(/^PDU1-Y[0-9]{6}$/): anchored at both ends, no flags.
RegexMatch(s) ==
  /\ Len(s) >= 12
  /\ \A k \in 1..6 : s[k] = SerialPrefix[k]
  /\ \A k \in 7..12 : s[k] \in Digits
  /\ Len(s) = 12

\* A mutant: the pattern without its end anchor and without the length test.
_validateSerial_throws_unanchored(serial) ==
  IF serial.t # "str" THEN TRUE
  ELSE ~(/\ Len(serial.s) >= 12
         /\ \A k \in 1..6 : serial.s[k] = SerialPrefix[k]
         /\ \A k \in 7..12 : serial.s[k] \in Digits)

\* _validateSerial(serial): TRUE when it throws.  A value without a length
\* (undefined) throws on the property access.
_validateSerial_throws(serial) ==
  IF serial.t # "str" THEN TRUE
  ELSE IF Len(serial.s) # 12 THEN TRUE
  ELSE ~RegexMatch(serial.s)

(***************************************************************************)
(* Inputs of the callers                                                   *)
(***************************************************************************)
SerialDigits == {<<"1", "2", "3", "4", "5", "6">>, <<"0", "0", "0", "0", "0", "0">>}

WellFormedSerials == {Str(SerialPrefix \o d) : d \in SerialDigits}

MalformedSerials ==
  { Undefined,
    Str(<<>>),
    Str(SerialPrefix \o <<"1", "2", "3", "4", "5">>),
    Str(SerialPrefix \o <<"1", "2", "3", "4", "5", "6", "7">>),
    Str(<<"P", "D", "U", "2", "-", "Y", "1", "2", "3", "4", "5", "6">>),
    Str(<<"p", "d", "u", "1", "-", "y", "1", "2", "3", "4", "5", "6">>),
    Str(SerialPrefix \o <<"1", "2", "3", "4", "5", "A">>),
    Str(SerialPrefix \o <<"1", "2", "3", "4", "5", "\n">>),
    Str(<<"X">> \o SerialPrefix \o <<"1", "2", "3", "4", "5">>),
    Str(SerialPrefix \o <<"1", "2", "3", "4", "5", "6", "\n">>) }

SerialInputs == WellFormedSerials \cup MalformedSerials

\* new PlaydateClient(token): with a token, or without one.
TokenInputs == {Str(<<"t", "A">>), Undefined}

PinInputs == {Str(<<"9", "1">>)}

(***************************************************************************)
(* Math.random().toFixed(digit).split(".")[1]   (index.js:169)             *)
(***************************************************************************)
NumRandom == 2
FractionLen == 4

DigitChar(n) == <<"0", "1", "2", "3", "4", "5", "6", "7", "8", "9">>[n + 1]

\* The decimal digits of the k-th modelled outcome of Math.random().
RandomFraction(k) == [j \in 1..FractionLen |-> DigitChar((k * j) % 10)]

RandomOutcomes == {RandomFraction(k) : k \in 1..NumRandom}

\* `digit` is declared nowhere in the module: it resolves in the global scope
\* of the host, where it is either unbound or bound to a number.
DigitBindings ==
  { [bound |-> FALSE, value |-> 0],
    [bound |-> TRUE, value |-> 0],
    [bound |-> TRUE, value |-> 3] }

\* Number.prototype.toFixed(d) of a number in [0, 1) with the fraction digits
\* frac (rounding of the last kept digit is left out): "0" or "0.ddd".
ToFixed(frac, d) ==
  IF d = 0 THEN <<"0">>
  ELSE <<"0", ".">> \o [j \in 1..d |-> IF j <= Len(frac) THEN frac[j] ELSE "0"]

\* String.prototype.split("."): the pieces between the dots.
RECURSIVE SplitDot(_)
SplitDot(chars) ==
  IF \A k \in 1..Len(chars) : chars[k] # "."
  THEN <<chars>>
  ELSE LET p == CHOOSE k \in 1..Len(chars) :
                  chars[k] = "." /\ \A m \in 1..(k - 1) : chars[m] # "."
       IN <<SubSeq(chars, 1, p - 1)>> \o SplitDot(SubSeq(chars, p + 1, Len(chars)))

\* pieces[1] of JavaScript: the second piece, undefined when there is none.
NewIdempotencyKey(frac, d) ==
  LET pieces == SplitDot(ToFixed(frac, d))
  IN IF Len(pieces) >= 2 THEN Str(pieces[2]) ELSE Undefined

(***************************************************************************)
(* Requests and the answers of the server                                  *)
(***************************************************************************)
Absent == [t |-> "absent", s |-> <<>>]

Resp(rejected, ok, elem, value, json, pin, at) ==
  [rejected |-> rejected, ok |-> ok, elem |-> elem, value |-> value,
   json |-> json, pin |-> pin, access_token |-> at]

NoResp == Resp(FALSE, FALSE, FALSE, Absent, "none", Absent, Absent)

\* fetch rejected: no response at all.
Rejected == Resp(TRUE, FALSE, FALSE, Absent, "none", Absent, Absent)

CsrfToken == Str(<<"c", "1">>)

\* The GET of a form page: a failure status, a page without the hidden input,
\* the input without a value attribute, with an empty value, with a token.
CsrfResponses ==
  { Rejected,
    Resp(FALSE, FALSE, FALSE, Absent, "none", Absent, Absent),
    Resp(FALSE, TRUE, FALSE, Absent, "none", Absent, Absent),
    Resp(FALSE, TRUE, TRUE, Null, "none", Absent, Absent),
    Resp(FALSE, TRUE, TRUE, Str(<<>>), "none", Absent, Absent),
    Resp(FALSE, TRUE, TRUE, CsrfToken, "none", Absent, Absent) }

PostResponses ==
  { Rejected,
    Resp(FALSE, TRUE, FALSE, Absent, "none", Absent, Absent),
    Resp(FALSE, FALSE, FALSE, Absent, "none", Absent, Absent) }

\* GET /device/register/{serial}: a body that is not JSON, JSON null, the
\* pin, an error object under a failure status.
PinResponses ==
  { Rejected,
    Resp(FALSE, TRUE, FALSE, Absent, "invalid", Absent, Absent),
    Resp(FALSE, TRUE, FALSE, Absent, "null", Absent, Absent),
    Resp(FALSE, TRUE, FALSE, Absent, "object", Str(<<"9", "1">>), Undefined),
    Resp(FALSE, FALSE, FALSE, Absent, "object", Undefined, Undefined) }

\* GET /device/register/{serial}/complete/
CompleteResponses ==
  { Rejected,
    Resp(FALSE, TRUE, FALSE, Absent, "invalid", Absent, Absent),
    Resp(FALSE, TRUE, FALSE, Absent, "null", Absent, Absent),
    Resp(FALSE, TRUE, FALSE, Absent, "object", Undefined, Str(<<"t", "B">>)),
    Resp(FALSE, FALSE, FALSE, Absent, "object", Undefined, Undefined) }

ApiResponses ==
  { Rejected,
    Resp(FALSE, TRUE, FALSE, Absent, "invalid", Absent, Absent),
    Resp(FALSE, TRUE, FALSE, Absent, "object", Undefined, Undefined),
    Resp(FALSE, FALSE, FALSE, Absent, "object", Undefined, Undefined) }

\* One request: the page or endpoint, the serial in its URL, whether it goes
\* through the cookie jar, and the header and form fields the claims speak of.
Req(method, path, serial, cookie, key, csrf, pin, auth) ==
  [method |-> method, path |-> path, serial |-> serial, cookie |-> cookie,
   key |-> key, csrf |-> csrf, pin |-> pin, auth |-> auth,
   arrived |-> FALSE, resp |-> NoResp]

(***************************************************************************)
(* Method invocations                                                      *)
(***************************************************************************)
NoResult == [kind |-> "none", resp |-> NoResp]

Snapshot ==
  [token |-> token, loginToken |-> loginToken, headers |-> headers,
   idempotencyKey |-> idempotencyKey]

Idle ==
  [op |-> "none", status |-> "idle", pc |-> "done", serial |-> Absent,
   pin |-> Absent, err |-> "", result |-> NoResult, sent |-> <<>>,
   pre |-> [token |-> Absent, loginToken |-> Absent,
            headers |-> MakeHeaders(Absent), idempotencyKey |-> Absent]]

NewCall(op, serial, pin) ==
  [op |-> op, status |-> "running", pc |-> "sync", serial |-> serial,
   pin |-> pin, err |-> "", result |-> NoResult, sent |-> <<>>,
   pre |-> Snapshot]

\* The call issues a request and suspends on it.
Send(c, req, pc) == [c EXCEPT !.sent = Append(@, req), !.pc = pc]

\* The response of the request the call is suspended on has arrived.
Arrive(c, r) ==
  [c EXCEPT !.sent[Len(c.sent)] = [@ EXCEPT !.arrived = TRUE, !.resp = r]]

Thrown(c, e) == [c EXCEPT !.status = "threw", !.pc = "done", !.err = e]

Returned(c, kind, r) ==
  [c EXCEPT !.status = "returned", !.pc = "done",
            !.result = [kind |-> kind, resp |-> r]]

Set(i, c) == calls' = [calls EXCEPT ![i] = c]

\* A slot is free for a new invocation when nothing runs in it.
Free(i) == calls[i].status # "running"

(***************************************************************************)
(* _getMiddlewareToken(url)   (index.js:86-99)                             *)
(***************************************************************************)
\* What the awaited GET of a form page yields: an error, or the value
\* attribute of the hidden input (null when the attribute is missing).
_getMiddlewareToken(r) ==
  IF r.rejected THEN [threw |-> TRUE, err |-> "fetch failed", token |-> Absent]
  ELSE IF ~r.ok THEN [threw |-> TRUE, err |-> "Invalid request.", token |-> Absent]
  ELSE IF ~r.elem THEN [threw |-> TRUE, err |-> "TypeError", token |-> Absent]
  ELSE [threw |-> FALSE, err |-> "", token |-> r.value]

\* A form POST through the cookie jar: URLSearchParams turns each field
\* into a string.
FormPost(path, serial, csrf, pin) ==
  Req("POST", path, serial, TRUE, Absent, Str(ToStr(csrf)),
      IF pin = Absent THEN Absent ELSE Str(ToStr(pin)), Absent)

PageGet(path, serial) ==
  Req("GET", path, serial, TRUE, Absent, Absent, Absent, Absent)

\* A plain fetch of a registration endpoint with the idempotency-key header.
RegisterGet(path, serial, key) ==
  Req("GET", path, serial, FALSE, Str(ToStr(key)), Absent, Absent, Absent)

(***************************************************************************)
(* registerDevice, from its last step back to its first                    *)
(* Each operator is the synchronous run of the code from one point to the  *)
(* next awaited request, to a return or to a throw.                        *)
(***************************************************************************)

\* A mutant: the token is replaced, the header set is left as it was.
registerDevice_commit_staleHeaders(i, c, r) ==
  IF r.json = "null"
  THEN /\ Set(i, Thrown(c, "TypeError"))
       /\ UNCHANGED <<token, loginToken, headers>>
  ELSE /\ token' = r.access_token
       /\ loginToken' = r.access_token
       /\ headers' = headers
       /\ Set(i, Returned(c, "json", r))

\* A mutant: the header set is rebuilt before the token is replaced.
registerDevice_commit_headersFirst(i, c, r) ==
  IF r.json = "null"
  THEN /\ Set(i, Thrown(c, "TypeError"))
       /\ UNCHANGED <<token, loginToken, headers>>
  ELSE /\ headers' = MakeHeaders(token)
       /\ token' = r.access_token
       /\ loginToken' = r.access_token
       /\ Set(i, Returned(c, "json", r))

\* index.js:268-279: destructure the completion payload r, commit the
\* credential, return the payload.
registerDevice_commit(i, c, r) ==
  IF r.json = "null"
  THEN /\ Set(i, Thrown(c, "TypeError"))
       /\ UNCHANGED <<token, loginToken, headers>>
  ELSE /\ token' = r.access_token
       /\ loginToken' = r.access_token
       /\ headers' = MakeHeaders(r.access_token)
       /\ Set(i, Returned(c, "json", r))

\* A mutant: the precondition on the stored key is missing.
getDeviceAccessToken_begin_unguarded(i, c) ==
  /\ UNCHANGED clientVars
  /\ IF _validateSerial_throws(c.serial)
     THEN Set(i, Thrown(c, "Invalid serial number"))
     ELSE Set(i, Send(c, RegisterGet("complete", c.serial, idempotencyKey), "complete"))

\* A mutant: the completion request carries a key generated anew.
getDeviceAccessToken_begin_newKey(i, c) ==
  /\ UNCHANGED clientVars
  /\ IF ~Truthy(idempotencyKey)
     THEN Set(i, Thrown(c, "You must first add a device before this can be called."))
     ELSE IF _validateSerial_throws(c.serial)
     THEN Set(i, Thrown(c, "Invalid serial number"))
     ELSE Set(i, Send(c, RegisterGet("complete", c.serial,
                                     Str(idempotencyKey.s \o <<"0">>)), "complete"))

\* A mutant: inside registerDevice the completion request carries the key
\* of the invocation's own PIN request, whatever the client stores by then.
getDeviceAccessToken_begin_ownKey(i, c) ==
  /\ UNCHANGED clientVars
  /\ IF ~Truthy(idempotencyKey)
     THEN Set(i, Thrown(c, "You must first add a device before this can be called."))
     ELSE IF _validateSerial_throws(c.serial)
     THEN Set(i, Thrown(c, "Invalid serial number"))
     ELSE LET own == {k \in 1..Len(c.sent) : c.sent[k].path = "register"}
              key == IF own = {} THEN idempotencyKey
                     ELSE c.sent[CHOOSE k \in own : TRUE].key
          IN Set(i, Send(c, RegisterGet("complete", c.serial, key), "complete"))

\* index.js:221-233: getDeviceAccessToken up to its fetch.
getDeviceAccessToken_begin(i, c) ==
  /\ UNCHANGED clientVars
  /\ IF ~Truthy(idempotencyKey)
     THEN Set(i, Thrown(c, "You must first add a device before this can be called."))
     ELSE IF _validateSerial_throws(c.serial)
     THEN Set(i, Thrown(c, "Invalid serial number"))
     ELSE Set(i, Send(c, RegisterGet("complete", c.serial, idempotencyKey), "complete"))

\* index.js:187-193: addDevice(pin) up to the GET of the pin page.
addDevice_begin(i, c, pin) ==
  /\ UNCHANGED clientVars
  /\ IF ~Truthy(loginToken)
     THEN Set(i, Thrown(c, "You must be logged in to add a device"))
     ELSE Set(i, Send([c EXCEPT !.pin = pin], PageGet("pin", Absent), "add_csrf"))

\* index.js:167-177: getDevicePin up to its fetch.  frac is the outcome of
\* Math.random(); evaluating `digit` throws when the host binds no such name.
getDevicePin_begin(i, c, frac) ==
  IF _validateSerial_throws(c.serial)
  THEN /\ Set(i, Thrown(c, "Invalid serial number"))
       /\ UNCHANGED clientVars
  ELSE IF ~digit.bound
  THEN /\ Set(i, Thrown(c, "ReferenceError"))
       /\ UNCHANGED clientVars
  ELSE LET key == NewIdempotencyKey(frac, digit.value)
       IN /\ idempotencyKey' = key
          /\ UNCHANGED <<token, loginToken, headers>>
          /\ Set(i, Send(c, RegisterGet("register", c.serial, key), "pin"))

\* index.js:139-145: removeDevice up to the GET of the removal page.
removeDevice_begin(i, c) ==
  /\ UNCHANGED clientVars
  /\ IF ~Truthy(loginToken)
     THEN Set(i, Thrown(c, "You must be logged in to remove a device"))
     ELSE IF _validateSerial_throws(c.serial)
     THEN Set(i, Thrown(c, "Invalid serial number"))
     ELSE Set(i, Send(c, PageGet("remove", c.serial), "rm_csrf"))

\* index.js:246-255: registerDevice up to the first request of removeDevice.
\* Both checks of removeDevice pass here: registerDevice has just made them.
registerDevice_begin(i, c) ==
  IF ~Truthy(loginToken)
  THEN Set(i, Thrown(c, "You must be logged in register a device")) /\ UNCHANGED clientVars
  ELSE IF _validateSerial_throws(c.serial)
  THEN Set(i, Thrown(c, "Invalid serial number")) /\ UNCHANGED clientVars
  ELSE removeDevice_begin(i, c)

(***************************************************************************)
(* The actions of the client: a call of a method, or the arrival of the    *)
(* response a call is suspended on.                                         *)
(***************************************************************************)
Waiting(i, pc) == calls[i].status = "running" /\ calls[i].pc = pc

\* login(username, password), index.js:107-109.  The credentials only travel
\* in the form body; the server's answer is what decides.
LoginCall(i) ==
  /\ Free(i)
  /\ Set(i, Send(NewCall("login", Absent, Absent), PageGet("signin", Absent), "login_csrf"))
  /\ UNCHANGED <<clientVars, digit, cryptoVars>>

\* index.js:109-123
LoginCsrfResponse(i) ==
  /\ Waiting(i, "login_csrf")
  /\ \E r \in CsrfResponses :
       LET c == Arrive(calls[i], r)
           m == _getMiddlewareToken(r)
       IN IF m.threw
          THEN Set(i, Thrown(c, m.err))
          ELSE Set(i, Send(c, FormPost("signin", Absent, m.token, Absent), "login_post"))
  /\ UNCHANGED <<clientVars, digit, cryptoVars>>

\* A mutant: the status of the login POST is not looked at.
LoginPostResponse_ignoresStatus(i) ==
  /\ Waiting(i, "login_post")
  /\ \E r \in PostResponses :
       LET c == Arrive(calls[i], r)
       IN IF r.rejected
          THEN Set(i, Thrown(c, "fetch failed")) /\ UNCHANGED loginToken
          ELSE /\ loginToken' = LoggedIn
               /\ Set(i, Returned(c, "true", NoResp))
  /\ UNCHANGED <<token, headers, idempotencyKey, digit, cryptoVars>>

\* index.js:125-131
LoginPostResponse(i) ==
  /\ Waiting(i, "login_post")
  /\ \E r \in PostResponses :
       LET c == Arrive(calls[i], r)
       IN IF r.rejected
          THEN Set(i, Thrown(c, "fetch failed")) /\ UNCHANGED loginToken
          ELSE IF ~r.ok
          THEN Set(i, Thrown(c, "Login failed.")) /\ UNCHANGED loginToken
          ELSE /\ loginToken' = LoggedIn
               /\ Set(i, Returned(c, "true", NoResp))
  /\ UNCHANGED <<token, headers, idempotencyKey, digit, cryptoVars>>

\* removeDevice(serialNumber) called by the user.
RemoveDeviceCall(i) ==
  /\ Free(i)
  /\ \E serial \in SerialInputs :
       removeDevice_begin(i, NewCall("removeDevice", serial, Absent))
  /\ UNCHANGED <<digit, cryptoVars>>

\* index.js:145-158, and for registerDevice the catch of index.js:256 with
\* the step after it.
RemoveCsrfResponse(i) ==
  /\ Waiting(i, "rm_csrf")
  /\ \E r \in CsrfResponses, frac \in RandomOutcomes :
       LET c == Arrive(calls[i], r)
           m == _getMiddlewareToken(r)
           e == IF m.threw THEN m.err ELSE "Device not found"
       IN IF m.threw \/ ~Truthy(m.token)
          THEN IF c.op = "registerDevice"
               THEN getDevicePin_begin(i, c, frac)
               ELSE Set(i, Thrown(c, e)) /\ UNCHANGED clientVars
          ELSE /\ Set(i, Send(c, FormPost("remove", c.serial, m.token, Absent), "rm_post"))
               /\ UNCHANGED clientVars
  /\ UNCHANGED <<digit, cryptoVars>>

\* index.js:151-158: removeDevice resolves to the response of its POST,
\* whatever its status; registerDevice goes on either way (index.js:254-261).
RemovePostResponse(i) ==
  /\ Waiting(i, "rm_post")
  /\ \E r \in PostResponses, frac \in RandomOutcomes :
       LET c == Arrive(calls[i], r)
       IN IF c.op = "registerDevice"
          THEN getDevicePin_begin(i, c, frac)
          ELSE /\ UNCHANGED clientVars
               /\ IF r.rejected
                  THEN Set(i, Thrown(c, "fetch failed"))
                  ELSE Set(i, Returned(c, "response", r))
  /\ UNCHANGED <<digit, cryptoVars>>

\* getDevicePin(serialNumber) called by the user.
GetDevicePinCall(i) ==
  /\ Free(i)
  /\ \E serial \in SerialInputs, frac \in RandomOutcomes :
       getDevicePin_begin(i, NewCall("getDevicePin", serial, Absent), frac)
  /\ UNCHANGED <<digit, cryptoVars>>

\* A mutant: addDevice is called without await, so the completion request
\* goes out while the GET of the pin page is still pending.
PinResponse_addNotAwaited(i) ==
  /\ Waiting(i, "pin")
  /\ \E r \in PinResponses :
       LET c == Arrive(calls[i], r)
       IN IF r.rejected
          THEN Set(i, Thrown(c, "fetch failed"))
          ELSE IF r.json = "invalid"
          THEN Set(i, Thrown(c, "SyntaxError"))
          ELSE IF c.op = "getDevicePin"
          THEN Set(i, Returned(c, "json", r))
          ELSE IF r.json = "null"
          THEN Set(i, Thrown(c, "TypeError"))
          ELSE IF ~Truthy(idempotencyKey)
          THEN Set(i, Thrown(c, "You must first add a device before this can be called."))
          ELSE Set(i, Send(Send([c EXCEPT !.pin = r.pin], PageGet("pin", Absent), "add_csrf"),
                           RegisterGet("complete", c.serial, idempotencyKey), "complete"))
  /\ UNCHANGED <<clientVars, digit, cryptoVars>>

\* index.js:178-179, and for registerDevice index.js:261-264.
PinResponse(i) ==
  /\ Waiting(i, "pin")
  /\ \E r \in PinResponses :
       LET c == Arrive(calls[i], r)
       IN IF r.rejected
          THEN Set(i, Thrown(c, "fetch failed")) /\ UNCHANGED clientVars
          ELSE IF r.json = "invalid"
          THEN Set(i, Thrown(c, "SyntaxError")) /\ UNCHANGED clientVars
          ELSE IF c.op = "getDevicePin"
          THEN Set(i, Returned(c, "json", r)) /\ UNCHANGED clientVars
          ELSE IF r.json = "null"
          THEN Set(i, Thrown(c, "TypeError")) /\ UNCHANGED clientVars
          ELSE addDevice_begin(i, c, r.pin)
  /\ UNCHANGED <<digit, cryptoVars>>

\* addDevice(pin) called by the user.
AddDeviceCall(i) ==
  /\ Free(i)
  /\ \E pin \in PinInputs : addDevice_begin(i, NewCall("addDevice", Absent, Absent), pin)
  /\ UNCHANGED <<digit, cryptoVars>>

\* index.js:193-206
AddCsrfResponse(i) ==
  /\ Waiting(i, "add_csrf")
  /\ \E r \in CsrfResponses :
       LET c == Arrive(calls[i], r)
           m == _getMiddlewareToken(r)
       IN IF m.threw
          THEN Set(i, Thrown(c, m.err))
          ELSE Set(i, Send(c, FormPost("pin", Absent, m.token, c.pin), "add_post"))
  /\ UNCHANGED <<clientVars, digit, cryptoVars>>

\* A mutant: the status of the add-device POST is not looked at.
AddPostResponse_ignoresStatus(i) ==
  /\ Waiting(i, "add_post")
  /\ \E r \in PostResponses :
       LET c == Arrive(calls[i], r)
       IN IF r.rejected
          THEN Set(i, Thrown(c, "fetch failed")) /\ UNCHANGED clientVars
          ELSE IF c.op = "addDevice"
          THEN Set(i, Returned(c, "true", NoResp)) /\ UNCHANGED clientVars
          ELSE getDeviceAccessToken_begin(i, c)
  /\ UNCHANGED <<digit, cryptoVars>>

\* index.js:208-212, and for registerDevice index.js:267.
AddPostResponse(i) ==
  /\ Waiting(i, "add_post")
  /\ \E r \in PostResponses :
       LET c == Arrive(calls[i], r)
       IN IF r.rejected
          THEN Set(i, Thrown(c, "fetch failed")) /\ UNCHANGED clientVars
          ELSE IF ~r.ok
          THEN Set(i, Thrown(c, "Could not add device.")) /\ UNCHANGED clientVars
          ELSE IF c.op = "addDevice"
          THEN Set(i, Returned(c, "true", NoResp)) /\ UNCHANGED clientVars
          ELSE getDeviceAccessToken_begin(i, c)
  /\ UNCHANGED <<digit, cryptoVars>>

\* getDeviceAccessToken(serialNumber) called by the user.
GetDeviceAccessTokenCall(i) ==
  /\ Free(i)
  /\ \E serial \in SerialInputs :
       getDeviceAccessToken_begin(i, NewCall("getDeviceAccessToken", serial, Absent))
  /\ UNCHANGED <<digit, cryptoVars>>

\* A mutant: the key is left in place after the payload is parsed.
CompleteResponse_keepsKey(i) ==
  /\ Waiting(i, "complete")
  /\ \E r \in CompleteResponses :
       LET c == Arrive(calls[i], r)
       IN IF r.rejected
          THEN Set(i, Thrown(c, "fetch failed")) /\ UNCHANGED clientVars
          ELSE IF r.json = "invalid"
          THEN Set(i, Thrown(c, "SyntaxError")) /\ UNCHANGED clientVars
          ELSE /\ UNCHANGED idempotencyKey
               /\ IF c.op = "getDeviceAccessToken"
                  THEN Set(i, Returned(c, "json", r)) /\ UNCHANGED <<token, loginToken, headers>>
                  ELSE registerDevice_commit(i, c, r)
  /\ UNCHANGED <<digit, cryptoVars>>

\* index.js:234-236: the body is parsed, the key is cleared, the payload is
\* returned; for registerDevice index.js:267-279 follow.  A body that does
\* not parse throws before the key is cleared.
CompleteResponse(i) ==
  /\ Waiting(i, "complete")
  /\ \E r \in CompleteResponses :
       LET c == Arrive(calls[i], r)
       IN IF r.rejected
          THEN Set(i, Thrown(c, "fetch failed")) /\ UNCHANGED clientVars
          ELSE IF r.json = "invalid"
          THEN Set(i, Thrown(c, "SyntaxError")) /\ UNCHANGED clientVars
          ELSE /\ idempotencyKey' = Null
               /\ IF c.op = "getDeviceAccessToken"
                  THEN Set(i, Returned(c, "json", r)) /\ UNCHANGED <<token, loginToken, headers>>
                  ELSE registerDevice_commit(i, c, r)
  /\ UNCHANGED <<digit, cryptoVars>>

\* A mutant: registerDevice without its login check.  removeDevice still
\* makes its own check, and its throw is swallowed by the catch.
RegisterDeviceCall_noLoginCheck(i) ==
  /\ Free(i)
  /\ \E serial \in SerialInputs, frac \in RandomOutcomes :
       LET c == NewCall("registerDevice", serial, Absent)
       IN IF _validateSerial_throws(serial)
          THEN Set(i, Thrown(c, "Invalid serial number")) /\ UNCHANGED clientVars
          ELSE IF ~Truthy(loginToken)
          THEN getDevicePin_begin(i, c, frac)
          ELSE removeDevice_begin(i, c)
  /\ UNCHANGED <<digit, cryptoVars>>

\* registerDevice(serialNumber) called by the user.
RegisterDeviceCall(i) ==
  /\ Free(i)
  /\ \E serial \in SerialInputs :
       registerDevice_begin(i, NewCall("registerDevice", serial, Absent))
  /\ UNCHANGED <<digit, cryptoVars>>

\* _request(endpoint, method, body), index.js:59-71: any of the API methods
\* (getPlayer, getGamesUser, ...).
RequestCall(i) ==
  /\ Free(i)
  /\ LET c == NewCall("_request", Absent, Absent)
     IN IF ~Truthy(token)
        THEN Set(i, Thrown(c, "Missing token"))
        ELSE Set(i, Send(c, Req("GET", "api", Absent, FALSE, Absent, Absent, Absent,
                                headers.Authorization), "api"))
  /\ UNCHANGED <<clientVars, digit, cryptoVars>>

\* index.js:71-76
ApiResponse(i) ==
  /\ Waiting(i, "api")
  /\ \E r \in ApiResponses :
       LET c == Arrive(calls[i], r)
       IN IF r.rejected
          THEN Set(i, Thrown(c, "fetch failed"))
          ELSE IF r.json = "invalid"
          THEN Set(i, Thrown(c, "SyntaxError"))
          ELSE IF ~r.ok
          THEN Set(i, Thrown(c, "Request failed"))
          ELSE Set(i, Returned(c, "json", r))
  /\ UNCHANGED <<clientVars, digit, cryptoVars>>

\* The slots of `calls`.  A caller that awaits each call before making the
\* next one (the README's usage) keeps one invocation in flight: slot 1.
NumSlots == 2
Slots == 1..NumSlots
Sequential == {1}

ClientNext ==
  \E i \in Sequential :
    \/ LoginCall(i)
    \/ LoginCsrfResponse(i)
    \/ LoginPostResponse(i)
    \/ RemoveDeviceCall(i)
    \/ RemoveCsrfResponse(i)
    \/ RemovePostResponse(i)
    \/ GetDevicePinCall(i)
    \/ PinResponse(i)
    \/ AddDeviceCall(i)
    \/ AddCsrfResponse(i)
    \/ AddPostResponse(i)
    \/ GetDeviceAccessTokenCall(i)
    \/ CompleteResponse(i)
    \/ RegisterDeviceCall(i)
    \/ RequestCall(i)
    \/ ApiResponse(i)

(***************************************************************************)
(* decrypt.js: buffers are sequences of bytes, base64 text a sequence of   *)
(* characters.                                                             *)
(***************************************************************************)
Base64Alphabet ==
  << "A", "B", "C", "D", "E", "F", "G", "H", "I", "J", "K", "L", "M", "N", "O", "P",
     "Q", "R", "S", "T", "U", "V", "W", "X", "Y", "Z", "a", "b", "c", "d", "e", "f",
     "g", "h", "i", "j", "k", "l", "m", "n", "o", "p", "q", "r", "s", "t", "u", "v",
     "w", "x", "y", "z", "0", "1", "2", "3", "4", "5", "6", "7", "8", "9", "+", "/" >>

Pow2(e) == CASE e = 0 -> 1 [] e = 2 -> 4 [] e = 4 -> 16 [] e = 6 -> 64
             [] e = 8 -> 256 [] e = 10 -> 1024 [] OTHER -> 1

SextetOf(ch) == (CHOOSE k \in 1..64 : Base64Alphabet[k] = ch) - 1

\* Buffer.from(text, "base64") of well-formed base64: the characters before
\* the padding are 6-bit groups, and every 8 bits of them make a byte.
Base64Decode(text) ==
  LET n == Cardinality({k \in 1..Len(text) : text[k] # "="})
      sx == [k \in 1..n |-> SextetOf(text[k])]
      nbytes == (n * 6) \div 8
      ByteAt(j) ==
        LET q == (8 * j) \div 6
            r == (8 * j) % 6
            v == sx[q + 1] * 64 + sx[q + 2]
        IN (v \div Pow2(4 - r)) % 256
  IN [j \in 1..nbytes |-> ByteAt(j - 1)]

\* Buffer.prototype.slice(start, end): a negative index counts from the
\* end, both are clamped to the buffer, and start >= end gives an empty one.
Slice(buf, start, end) ==
  LET n == Len(buf)
      Norm(x) == IF x < 0 THEN (IF n + x < 0 THEN 0 ELSE n + x)
                 ELSE (IF x > n THEN n ELSE x)
  IN IF Norm(start) >= Norm(end) THEN <<>>
     ELSE SubSeq(buf, Norm(start) + 1, Norm(end))

RECURSIVE WeightedSum(_, _)
WeightedSum(bytes, offset) ==
  IF bytes = <<>> THEN 0
  ELSE bytes[Len(bytes)] * (Len(bytes) + offset)
       + WeightedSum(SubSeq(bytes, 1, Len(bytes) - 1), offset)

IvLength == 12
TagLength == 16
KeyLength == 32

\* AES-256-GCM of node:crypto, idealised: the 16-byte tag determines the
\* key, the IV and the ciphertext it was computed for (their checksums, the
\* length and the leading bytes of the ciphertext), so it verifies for no
\* other key and for no ciphertext with a byte changed.
GcmTag(key, iv, ct) ==
  LET ksum == WeightedSum(key, 0) % 65521
      ivsum == WeightedSum(iv, 0) % 65521
  IN [m \in 1..TagLength |->
        CASE m = 1 -> ksum % 256
          [] m = 2 -> ksum \div 256
          [] m = 3 -> ivsum % 256
          [] m = 4 -> ivsum \div 256
          [] m = 5 -> Len(ct) % 256
          [] m = 16 -> WeightedSum(ct, 0) % 251
          [] OTHER -> IF m - 5 <= Len(ct) THEN ct[m - 5] ELSE 0]

GcmKeystream(key, iv, j) == (WeightedSum(key, 0) + WeightedSum(iv, 0) + j) % 256

GcmDecrypt(key, iv, ct) ==
  [j \in 1..Len(ct) |-> (ct[j] + 256 - GcmKeystream(key, iv, j)) % 256]

GcmEncrypt(key, iv, pt) ==
  [j \in 1..Len(pt) |-> (pt[j] + GcmKeystream(key, iv, j)) % 256]

\* The tag lengths setAuthTag accepts for GCM.
AuthTagLengths == {4, 8, 12, 13, 14, 15, 16}

Failure(e) == [threw |-> TRUE, err |-> e, data |-> <<>>]

\* A mutant: the failure of final() is caught and the bytes are returned.
decrypt_unverified(iv, key, encryptedData, tag) ==
  IF Len(key) # KeyLength THEN Failure("Invalid key length")
  ELSE IF Len(iv) = 0 THEN Failure("Invalid initialization vector")
  ELSE IF Len(tag) \notin AuthTagLengths THEN Failure("Invalid authentication tag length")
  ELSE [threw |-> FALSE, err |-> "", data |-> GcmDecrypt(key, iv, encryptedData)]

\* decrypt(iv, key, encryptedData, tag), decrypt.js:13-18: createDecipheriv,
\* setAuthTag, update, and final, which throws when the tag does not verify.
decrypt(iv, key, encryptedData, tag) ==
  IF Len(key) # KeyLength THEN Failure("Invalid key length")
  ELSE IF Len(iv) = 0 THEN Failure("Invalid initialization vector")
  ELSE IF Len(tag) \notin AuthTagLengths THEN Failure("Invalid authentication tag length")
  ELSE IF tag # SubSeq(GcmTag(key, iv, encryptedData), 1, Len(tag))
  THEN Failure("Unsupported state or unable to authenticate data")
  ELSE [threw |-> FALSE, err |-> "", data |-> GcmDecrypt(key, iv, encryptedData)]

\* A mutant: the ciphertext slice runs to the end of the buffer, over the tag.
getDecryptionKey_tagOverlap(key, it) ==
  LET decryptionKeyData == Base64Decode(it)
      iv == Slice(decryptionKeyData, 0, IvLength)
      encryptedData == Slice(decryptionKeyData, IvLength, Len(decryptionKeyData))
      tag == Slice(decryptionKeyData, 0 - TagLength, Len(decryptionKeyData))
      out == decrypt(iv, key, encryptedData, tag)
  IN [pc |-> "done", decoded |-> decryptionKeyData, decryptCalled |-> TRUE,
      iv |-> iv, encryptedData |-> encryptedData, tag |-> tag,
      threw |-> out.threw, err |-> out.err, result |-> out.data]

\* getDecryptionKey(unlockKey, item), decrypt.js:30-37: the record of what
\* it decoded, what it handed to decrypt, and how it ended.
getDecryptionKey(key, it) ==
  LET decryptionKeyData == Base64Decode(it)
      iv == Slice(decryptionKeyData, 0, IvLength)
      encryptedData == Slice(decryptionKeyData, IvLength, 0 - TagLength)
      tag == Slice(decryptionKeyData, 0 - TagLength, Len(decryptionKeyData))
      out == decrypt(iv, key, encryptedData, tag)
  IN [pc |-> "done", decoded |-> decryptionKeyData, decryptCalled |-> TRUE,
      iv |-> iv, encryptedData |-> encryptedData, tag |-> tag,
      threw |-> out.threw, err |-> out.err, result |-> out.data]

(***************************************************************************)
(* The envelopes and keys the unwrap routine is run on                      *)
(***************************************************************************)
MaxCipherLen == 2

\* base64 of a buffer, with its padding.
Base64Encode(bytes) ==
  LET n == Len(bytes)
      nsx == (8 * n + 5) \div 6
      At(q) == IF q <= n THEN bytes[q] ELSE 0
      SextetAt(k) ==
        LET q == (6 * k) \div 8
            r == (6 * k) % 8
            v == At(q + 1) * 256 + At(q + 2)
        IN (v \div Pow2(10 - r)) % 64
      pad == (4 - (nsx % 4)) % 4
  IN [k \in 1..nsx |-> Base64Alphabet[SextetAt(k - 1) + 1]] \o [k \in 1..pad |-> "="]

UnlockKey(k) == [j \in 1..KeyLength |-> k]
UnlockKeys == {UnlockKey(1), UnlockKey(2)}

SampleIv == [j \in 1..IvLength |-> 16 * j]
SampleBytes == {7, 200}

Plaintexts == UNION {[1..n -> SampleBytes] : n \in 0..MaxCipherLen}

\* The envelope IV || ciphertext || tag of a content key wrapped under key.
Wrap(key, pt) ==
  LET ct == GcmEncrypt(key, SampleIv, pt)
  IN SampleIv \o ct \o GcmTag(key, SampleIv, ct)

TamperDeltas == {1, 128}

\* An envelope with its history: wrapped under `key`; then, for "tampered",
\* the byte at `at` changed, for "truncated", cut to its first `at` bytes.
EnvelopeInputs ==
  LET valid == {[kind |-> "valid", key |-> k, at |-> 0, bytes |-> Wrap(k, pt)] :
                  k \in UnlockKeys, pt \in Plaintexts}
      tampered == UNION {
        {[kind |-> "tampered", key |-> v.key, at |-> p,
          bytes |-> [v.bytes EXCEPT ![p] = (@ + d) % 256]] :
            p \in (IvLength + 1)..Len(v.bytes), d \in TamperDeltas} : v \in valid}
      truncated == UNION {
        {[kind |-> "truncated", key |-> v.key, at |-> m,
          bytes |-> SubSeq(v.bytes, 1, m)] :
            m \in 0..(IvLength + TagLength - 1)} : v \in valid}
  IN valid \cup tampered \cup truncated

\* getGameDecryptionKey(unlockKey, game), decrypt.js:46-48
GetGameDecryptionKey ==
  /\ unwrap.pc = "ready"
  /\ unwrap' = [getDecryptionKey(unlockKey, item) EXCEPT !.pc = "game"]
  /\ UNCHANGED <<clientVars, digit, calls, item, unlockKey, origin>>

\* getFirmwareDecryptionKey(unlockKey, update), decrypt.js:57-59
GetFirmwareDecryptionKey ==
  /\ unwrap.pc = "ready"
  /\ unwrap' = [getDecryptionKey(unlockKey, item) EXCEPT !.pc = "firmware"]
  /\ UNCHANGED <<clientVars, digit, calls, item, unlockKey, origin>>

\* The key unwrap routine at rest (it shares no state with the client).
CryptoIdle ==
  /\ item = <<>>
  /\ unlockKey = 0
  /\ origin = [kind |-> "none", key |-> <<>>, at |-> 0]
  /\ unwrap = [pc |-> "idle"]

\* new PlaydateClient(token), index.js:11-21.  idempotencyKey is not set by
\* the constructor: it reads as undefined.
Init ==
  /\ token \in TokenInputs
  /\ loginToken = Null
  /\ headers = MakeHeaders(token)
  /\ idempotencyKey = Undefined
  /\ digit \in DigitBindings
  /\ calls = [i \in Slots |-> Idle]
  /\ CryptoIdle

Next == ClientNext

Spec == Init /\ [][Next]_vars

\* The unwrap routine on its own: one catalog entry, one unlock key.
InitUnwrap ==
  /\ token = Undefined
  /\ loginToken = Null
  /\ headers = MakeHeaders(Undefined)
  /\ idempotencyKey = Undefined
  /\ digit = [bound |-> FALSE, value |-> 0]
  /\ calls = [i \in Slots |-> Idle]
  /\ \E e \in EnvelopeInputs :
       /\ item = Base64Encode(e.bytes)
       /\ origin = [kind |-> e.kind, key |-> e.key, at |-> e.at]
  /\ unlockKey \in UnlockKeys
  /\ unwrap = [pc |-> "ready", decoded |-> <<>>, decryptCalled |-> FALSE,
               iv |-> <<>>, encryptedData |-> <<>>, tag |-> <<>>,
               threw |-> FALSE, err |-> "", result |-> <<>>]

NextUnwrap == GetGameDecryptionKey \/ GetFirmwareDecryptionKey

SpecUnwrap == InitUnwrap /\ [][NextUnwrap]_vars

\* The two invocations that are in flight together.
Interleaved == {1, 2}

\* The web frontend as the interleaved runs meet it: no form request is lost
\* on the network, and a form page is either refused or served with a token.
\* The two API endpoints answer in every way they can.
FrontendServes ==
  \A i \in Slots : \A k \in 1..Len(calls[i].sent) :
    LET q == calls[i].sent[k] IN
    (q.cookie /\ q.arrived) =>
      /\ ~q.resp.rejected
      /\ q.method = "GET" => (~q.resp.ok \/ (q.resp.elem /\ q.resp.value = CsrfToken))

\* A client whose session a login has established, the promises of the
\* earlier calls settled and dropped.
InitInterleaved ==
  /\ token \in TokenInputs
  /\ loginToken = LoggedIn
  /\ headers = MakeHeaders(token)
  /\ idempotencyKey = Undefined
  /\ digit \in DigitBindings
  /\ calls = [i \in Slots |-> Idle]
  /\ CryptoIdle

\* registerDevice invoked twice without awaiting the first invocation: each
\* slot runs one invocation, and the two take turns at their awaits.
NextInterleaved ==
  \E i \in Interleaved :
    \/ calls[i].status = "idle" /\ RegisterDeviceCall(i)
    \/ RemoveCsrfResponse(i) /\ FrontendServes'
    \/ RemovePostResponse(i) /\ FrontendServes'
    \/ PinResponse(i)
    \/ AddCsrfResponse(i) /\ FrontendServes'
    \/ AddPostResponse(i) /\ FrontendServes'
    \/ CompleteResponse(i)

SpecInterleaved == InitInterleaved /\ [][NextInterleaved]_vars

(***************************************************************************)
(* Properties of the client                                                *)
(***************************************************************************)
Done(c) == c.status \in {"returned", "threw"}

\* The credential is what it was when the call was made.
CredentialAsBefore(c) ==
  /\ token = c.pre.token
  /\ loginToken = c.pre.loginToken
  /\ headers = c.pre.headers

\* The whole client is what it was when the call was made.
ClientAsBefore(c) == CredentialAsBefore(c) /\ idempotencyKey = c.pre.idempotencyKey

\* 'PDU1-Y' followed by exactly 6 decimal digits.
IsSerialNumber(v) ==
  /\ v.t = "str"
  /\ Len(v.s) = 12
  /\ SubSeq(v.s, 1, 6) = SerialPrefix
  /\ \A k \in 7..12 : v.s[k] \in Digits

\* The server turned the request down: no response, or a failure status.
Refused(req) == req.arrived /\ (req.resp.rejected \/ ~req.resp.ok)

\* registerDevice failed: it threw, or the server refused the PIN request,
\* the add-device submission or the completion request.
RegistrationFailed(c) ==
  \/ c.status = "threw"
  \/ \E k \in 1..Len(c.sent) :
       c.sent[k].path \in {"register", "pin", "complete"} /\ Refused(c.sent[k])

\* C1: a registerDevice that fails at any step leaves token, loginToken and
\* the request headers as they were before the call.
C1_FailedRegistrationKeepsCredential ==
  \A i \in Slots :
    (calls[i].op = "registerDevice" /\ Done(calls[i]) /\ RegistrationFailed(calls[i]))
      => CredentialAsBefore(calls[i])

\* Every step of the registerDevice call c succeeded: the PIN request went
\* out with a key and was answered with a pin, the add-device form was
\* accepted, and the completion request went out with the same key and was
\* answered with a payload.
AllStepsSucceeded(c) ==
  /\ c.op = "registerDevice"
  /\ \E p, g, a, k \in 1..Len(c.sent) :
       /\ p < g /\ g < a /\ a < k
       /\ c.sent[p].path = "register" /\ c.sent[p].arrived /\ ~Refused(c.sent[p])
       /\ c.sent[p].resp.json = "object" /\ Truthy(c.sent[p].resp.pin)
       /\ c.sent[g].path = "pin" /\ c.sent[g].method = "GET" /\ ~Refused(c.sent[g])
       /\ c.sent[a].path = "pin" /\ c.sent[a].method = "POST"
       /\ c.sent[a].arrived /\ ~Refused(c.sent[a])
       /\ c.sent[k].path = "complete" /\ c.sent[k].arrived /\ ~Refused(c.sent[k])
       /\ c.sent[k].resp.json = "object"
       /\ c.sent[k].key = c.sent[p].key

CompletionPayload(c) == c.sent[Len(c.sent)].resp

\* C2: when every step of registerDevice succeeds, the call returns the
\* completion payload, the token is the access_token of that payload, the
\* Authorization header is built from it and the stored key is cleared.
C2_SuccessfulRegistrationCommits ==
  \A i \in Slots :
    AllStepsSucceeded(calls[i]) =>
      /\ calls[i].status = "returned"
      /\ calls[i].result = [kind |-> "json", resp |-> CompletionPayload(calls[i])]
      /\ token = CompletionPayload(calls[i]).access_token
      /\ headers.Authorization = Str(TokenPrefix \o ToStr(token))
      /\ idempotencyKey = Null

C2_Witness ==
  \E i \in Slots :
    /\ AllStepsSucceeded(calls[i])
    /\ token = Str(<<"t", "B">>)
    /\ calls[i].pre.token # token

SerialOps == {"registerDevice", "removeDevice", "getDevicePin", "getDeviceAccessToken"}

\* C3: an operation that takes a serial number and is given anything but
\* 'PDU1-Y' and 6 digits fails, issues no request and leaves the client as
\* it was.
C3_MalformedSerialNeverReachesNetwork ==
  \A i \in Slots :
    (calls[i].op \in SerialOps /\ ~IsSerialNumber(calls[i].serial)) =>
      /\ calls[i].status = "threw"
      /\ calls[i].sent = <<>>
      /\ ClientAsBefore(calls[i])

\* The serial is what stops the call: the client is logged in and holds a key.
C3_Witness ==
  \E i \in Slots :
    /\ calls[i].op \in {"registerDevice", "getDeviceAccessToken"}
    /\ ~IsSerialNumber(calls[i].serial)
    /\ calls[i].serial.t = "str" /\ Len(calls[i].serial.s) >= 12
    /\ Truthy(calls[i].pre.loginToken)
    /\ Truthy(calls[i].pre.idempotencyKey)
    /\ calls[i].err = "Invalid serial number"

\* C4: registerDevice on a client whose session is not established fails
\* with the not-logged-in error, issues no request and changes nothing.
C4_RegisterRequiresSession ==
  \A i \in Slots :
    (calls[i].op = "registerDevice" /\ ~Truthy(calls[i].pre.loginToken)) =>
      /\ calls[i].status = "threw"
      /\ calls[i].err = "You must be logged in register a device"
      /\ calls[i].sent = <<>>
      /\ ClientAsBefore(calls[i])

C4_Witness ==
  \E i \in Slots :
    /\ calls[i].op = "registerDevice"
    /\ ~Truthy(calls[i].pre.loginToken)
    /\ IsSerialNumber(calls[i].serial)
    /\ digit.bound
    /\ calls[i].status = "threw"

\* C5: getDeviceAccessToken without a stored idempotency key (none ever
\* requested, or the last one consumed) fails with the no-pending-registration
\* error and issues no request.
C5_CompletionRequiresKey ==
  \A i \in Slots :
    (calls[i].op = "getDeviceAccessToken" /\ ~Truthy(calls[i].pre.idempotencyKey)) =>
      /\ calls[i].status = "threw"
      /\ calls[i].err = "You must first add a device before this can be called."
      /\ calls[i].sent = <<>>

\* The key was consumed by an earlier completion, and the serial is good.
C5_Witness ==
  \E i \in Slots :
    /\ calls[i].op = "getDeviceAccessToken"
    /\ calls[i].pre.idempotencyKey = Null
    /\ IsSerialNumber(calls[i].serial)
    /\ calls[i].status = "threw"

\* C6: in a registerDevice invocation run on its own, the idempotency-key
\* header of the completion request is the one of the invocation's PIN
\* request.
C6_SameKeyOnPinAndCompletion ==
  \A i \in Slots :
    calls[i].op = "registerDevice" =>
      \A k \in 1..Len(calls[i].sent) :
        calls[i].sent[k].path = "complete" =>
          \E p \in 1..(k - 1) :
            /\ calls[i].sent[p].path = "register"
            /\ calls[i].sent[p].key = calls[i].sent[k].key
            /\ calls[i].sent[k].key # Absent

C6_Witness ==
  \E i \in Slots :
    /\ calls[i].op = "registerDevice"
    /\ Len(calls[i].sent) > 0
    /\ calls[i].sent[Len(calls[i].sent)].path = "complete"
    /\ Truthy(calls[i].sent[Len(calls[i].sent)].key)

\* A login returns successfully in this step.
LoginSucceeds ==
  \E i \in Slots :
    /\ calls[i].op = "login" /\ calls[i].status = "running"
    /\ calls'[i].op = "login" /\ calls'[i].status = "returned"

\* C7: the session becomes established only by a successful login, and once
\* established no operation resets it, whatever the server answers.
C7_SessionOnlyByLoginAndNeverReset ==
  [][ /\ (~Truthy(loginToken) /\ Truthy(loginToken')) => LoginSucceeds
      /\ Truthy(loginToken) => Truthy(loginToken') ]_vars

\* The step of registerDevice a request belongs to.
StepOf(req) ==
  CASE req.path = "remove" -> 1
    [] req.path = "register" -> 2
    [] req.path = "pin" -> 3
    [] req.path = "complete" -> 4
    [] OTHER -> 0

\* C10: the requests of one registerDevice go out in the order removal, PIN
\* request, add-device, completion; none twice, each after the response of
\* the one before, and none before every earlier step has been attempted.
C10_StepsInOrder ==
  \A i \in Slots :
    calls[i].op = "registerDevice" =>
      LET s == calls[i].sent
      IN /\ \A k \in 1..Len(s) : StepOf(s[k]) \in 1..4
         /\ \A k \in 1..(Len(s) - 1) : s[k].arrived
         /\ \A j, k \in 1..Len(s) :
              j < k => /\ StepOf(s[j]) <= StepOf(s[k])
                       /\ ~(s[j].path = s[k].path /\ s[j].method = s[k].method)
         /\ \A k \in 1..Len(s) :
              \A st \in 1..(StepOf(s[k]) - 1) :
                \E j \in 1..(k - 1) : StepOf(s[j]) = st

\* All six requests of a registration have gone out.
C10_Witness ==
  \E i \in Slots :
    /\ calls[i].op = "registerDevice"
    /\ Len(calls[i].sent) = 6
    /\ calls[i].sent[6].path = "complete"

\* The request of path `path` and method `method` that call c sent, if any.
Sent(c, path, method) ==
  {k \in 1..Len(c.sent) : c.sent[k].path = path /\ c.sent[k].method = method}

\* The page GET of a form yielded no usable token: it failed, the page has
\* no hidden input, or the input has no value.
NoTokenFrom(req) ==
  /\ req.arrived
  /\ (req.resp.rejected \/ ~req.resp.ok \/ ~req.resp.elem \/ ~Truthy(req.resp.value))

\* The removal step of the registerDevice call c failed: no token from the
\* removal page, or the removal POST was refused.
RemovalFailed(c) ==
  \/ \E k \in Sent(c, "remove", "GET") : NoTokenFrom(c.sent[k])
  \/ \E k \in Sent(c, "remove", "POST") : Refused(c.sent[k])

\* C11: a failure of the removal step does not fail registerDevice: the PIN
\* request is issued all the same.
C11_RemovalFailureStillRequestsPin ==
  \A i \in Slots :
    (calls[i].op = "registerDevice" /\ RemovalFailed(calls[i]))
      => Sent(calls[i], "register", "GET") # {}

\* C12: getDevicePin with a well-formed serial stores a non-empty key on the
\* client and sends that key in the idempotency-key header of its request.
C12_PinRequestStoresAndSendsKey ==
  \A i \in Slots :
    (calls[i].op = "getDevicePin" /\ IsSerialNumber(calls[i].serial)) =>
      /\ Truthy(idempotencyKey)
      /\ Len(calls[i].sent) = 1
      /\ calls[i].sent[1].path = "register"
      /\ calls[i].sent[1].key = idempotencyKey

\* The server answered the request with a failure status.
FailureStatus(req) == req.arrived /\ ~req.resp.rejected /\ ~req.resp.ok

\* C13: a PIN request answered with a failure status makes the PIN step
\* throw, and registerDevice issues no add-device and no completion request.
C13_PinErrorStopsRegistration ==
  \A i \in Slots :
    (/\ calls[i].op \in {"getDevicePin", "registerDevice"}
     /\ \E k \in Sent(calls[i], "register", "GET") : FailureStatus(calls[i].sent[k]))
      => /\ calls[i].status = "threw"
         /\ \A k \in 1..Len(calls[i].sent) : calls[i].sent[k].path \notin {"pin", "complete"}

\* The add-device POST of call c was answered with a failure status.
AddRefused(c) == \E k \in Sent(c, "pin", "POST") : FailureStatus(c.sent[k])

\* C14: an add-device submission answered with a failure status makes
\* registerDevice throw the device-add error; no completion request is
\* issued, the stored key is the one of the PIN request, and the credential
\* is as before the call.
C14_AddFailureStopsBeforeCompletion ==
  \A i \in Slots :
    (calls[i].op = "registerDevice" /\ AddRefused(calls[i])) =>
      /\ calls[i].status = "threw"
      /\ calls[i].err = "Could not add device."
      /\ Sent(calls[i], "complete", "GET") = {}
      /\ \E p \in Sent(calls[i], "register", "GET") :
           calls[i].sent[p].key = Str(ToStr(idempotencyKey))
      /\ CredentialAsBefore(calls[i])

C14_Witness ==
  \E i \in Slots :
    /\ calls[i].op = "registerDevice"
    /\ AddRefused(calls[i])
    /\ Truthy(idempotencyKey)
    /\ calls[i].status = "threw"

\* The login POST of call c, if it was sent.
LoginPost(c) == Sent(c, "signin", "POST")

\* C15: a login whose POST is answered with a failure status throws the
\* login error and leaves the session as it was; a login call changes the
\* session only when its POST was answered with success.
C15_LoginNeedsSuccessStatus ==
  \A i \in Slots :
    calls[i].op = "login" =>
      /\ (\E k \in LoginPost(calls[i]) : FailureStatus(calls[i].sent[k])) =>
            /\ calls[i].status = "threw"
            /\ calls[i].err = "Login failed."
            /\ loginToken = calls[i].pre.loginToken
      /\ loginToken # calls[i].pre.loginToken =>
            /\ loginToken = LoggedIn
            /\ calls[i].status = "returned"
            /\ \E k \in LoginPost(calls[i]) :
                 calls[i].sent[k].arrived /\ ~Refused(calls[i].sent[k])

\* A first login was turned down by the server.
C15_Witness ==
  \E i \in Slots :
    /\ calls[i].op = "login"
    /\ \E k \in LoginPost(calls[i]) : FailureStatus(calls[i].sent[k])
    /\ calls[i].pre.loginToken = Null
    /\ calls[i].status = "threw"

\* The form POSTs of call c: the POSTs through the cookie jar.
FormPosts(c) ==
  {k \in 1..Len(c.sent) : c.sent[k].method = "POST" /\ c.sent[k].cookie}

\* Request j of call c is the page GET that request k, a form POST, follows:
\* same URL, answered, and the POST carries the value scraped from it.
PageOf(c, j, k) ==
  /\ j < k
  /\ c.sent[j].method = "GET" /\ c.sent[j].cookie
  /\ c.sent[j].path = c.sent[k].path
  /\ c.sent[j].serial = c.sent[k].serial
  /\ c.sent[j].arrived
  /\ c.sent[k].csrf = Str(ToStr(c.sent[j].resp.value))

\* C16: every form POST follows, in the same call, a GET of the same URL and
\* carries the token scraped from it; no page serves two POSTs; and no POST
\* follows a GET that failed or yielded no token.
C16_PostCarriesFreshToken ==
  \A i \in Slots :
    LET c == calls[i] IN
    \A k \in FormPosts(c) :
      /\ \E j \in 1..Len(c.sent) : PageOf(c, j, k) /\ ~NoTokenFrom(c.sent[j])
      /\ \A j \in 1..Len(c.sent) :
           PageOf(c, j, k) => \A k2 \in FormPosts(c) : PageOf(c, j, k2) => k2 = k

\* C18: in every state, between the steps of a call as well, the
\* Authorization header is "Token " followed by the text of the token.
C18_HeaderFollowsToken ==
  headers.Authorization = Str(TokenPrefix \o ToStr(token))

\* A registration has replaced the token the client was built with, and a
\* later call is waiting for a response.
C18_Witness ==
  /\ token \notin TokenInputs
  /\ Truthy(token)
  /\ \E i \in Slots : calls[i].status = "running"

\* The completion request of call c was answered.
CompletionAnswered(c) ==
  \E k \in Sent(c, "complete", "GET") : c.sent[k].arrived /\ ~c.sent[k].resp.rejected

\* The completion request of call c was answered with a body that parses.
CompletionParsed(c) ==
  \E k \in Sent(c, "complete", "GET") :
    /\ c.sent[k].arrived
    /\ ~c.sent[k].resp.rejected
    /\ c.sent[k].resp.json # "invalid"

\* Call c, made with no getDevicePin since the call before it, failed
\* without a request.
FailedWithoutRequest(c) == c.status = "threw" /\ c.sent = <<>>

\* C19: once the completion request has been answered the stored key is
\* cleared, and a getDeviceAccessToken made right after that call fails
\* without a request.
C19_AnsweredCompletionConsumesKey ==
  [][\A i \in Sequential :
       /\ CompletionAnswered(calls'[i]) => idempotencyKey' = Null
       /\ (/\ CompletionAnswered(calls[i])
           /\ calls'[i] # calls[i]
           /\ calls'[i].op = "getDeviceAccessToken")
            => FailedWithoutRequest(calls'[i])]_vars

\* C19, amended: once the completion request has been answered with a body
\* that parses as JSON the stored key is cleared, and a getDeviceAccessToken
\* made right after that call fails without a request.
C19_ParsedCompletionConsumesKey ==
  [][\A i \in Sequential :
       /\ CompletionParsed(calls'[i]) => idempotencyKey' = Null
       /\ (/\ CompletionParsed(calls[i])
           /\ calls'[i] # calls[i]
           /\ calls'[i].op = "getDeviceAccessToken")
            => FailedWithoutRequest(calls'[i])]_vars

\* A getDeviceAccessToken was made with the key cleared by an earlier
\* completion, and failed without a request.
C19_Witness ==
  \E i \in Sequential :
    /\ calls[i].op = "getDeviceAccessToken"
    /\ calls[i].pre.idempotencyKey = Null
    /\ FailedWithoutRequest(calls[i])

\* In this step the invocation of slot i issued a request of path `path`.
NewlySent(i, path) ==
  /\ Len(calls'[i].sent) = Len(calls[i].sent) + 1
  /\ calls'[i].sent[Len(calls'[i].sent)].path = path

\* The request the invocation of slot i issued in this step.
LastSent(i) == calls'[i].sent[Len(calls'[i].sent)]

\* The invocation of slot i returned in this step, with the token of the
\* response to its own completion request committed.
CommitsOwnResponse(i) ==
  (calls[i].status = "running" /\ calls'[i].status = "returned") =>
    /\ token' = calls'[i].result.resp.access_token
    /\ \E k \in Sent(calls'[i], "complete", "GET") :
         calls'[i].sent[k].resp = calls'[i].result.resp

\* C20: with two registerDevice invocations interleaved, each completion
\* request carries the key of the PIN request of the same invocation, and an
\* invocation that returns has committed the token of its own response.
C20_EachInvocationKeepsOwnKey ==
  [][\A i \in Interleaved :
       /\ \A k \in Sent(calls'[i], "complete", "GET") :
            \E p \in Sent(calls'[i], "register", "GET") :
              calls'[i].sent[k].key = calls'[i].sent[p].key
       /\ CommitsOwnResponse(i)]_vars

\* C20, amended: with two registerDevice invocations interleaved, each PIN
\* request stores the key it sends, each completion request carries the key
\* the client stores when it is issued (the key of the latest PIN request of
\* either invocation), and an invocation that returns has committed the
\* token of the response to its own completion request.
C20_CompletionCarriesStoredKey ==
  [][\A i \in Interleaved :
       /\ NewlySent(i, "register") => LastSent(i).key = Str(ToStr(idempotencyKey'))
       /\ NewlySent(i, "complete") =>
            /\ Truthy(idempotencyKey)
            /\ LastSent(i).key = Str(ToStr(idempotencyKey))
       /\ CommitsOwnResponse(i)]_vars

\* An invocation returned a token after a completion request that carried
\* the key of the other invocation's PIN request.
C20_Witness ==
  \E i \in Interleaved : \E j \in Interleaved \ {i} :
    /\ calls[i].op = "registerDevice"
    /\ calls[i].status = "returned"
    /\ Truthy(calls[i].result.resp.access_token)
    /\ \E k \in Sent(calls[i], "complete", "GET") :
         /\ \A p \in Sent(calls[i], "register", "GET") :
              calls[i].sent[k].key # calls[i].sent[p].key
         /\ \E p \in Sent(calls[j], "register", "GET") :
              calls[i].sent[k].key = calls[j].sent[p].key

(***************************************************************************)
(* Properties of the unwrap routine                                        *)
(***************************************************************************)
Unwrapped == unwrap.pc \in {"game", "firmware"}

\* C8: an envelope that decodes to fewer than 28 bytes fails with a format
\* error before any decryption: it is never split and handed to AES-GCM.
C8_ShortEnvelopeIsFormatError ==
  (Unwrapped /\ Len(unwrap.decoded) < IvLength + TagLength) =>
    /\ unwrap.threw
    /\ unwrap.err = "FormatError"
    /\ ~unwrap.decryptCalled

\* The envelope is a wrapped key with one byte of its ciphertext or tag
\* changed, or it is unwrapped with another key than it was wrapped under.
TamperedOrWrongKey ==
  \/ origin.kind = "tampered"
  \/ origin.kind = "valid" /\ unlockKey # origin.key

\* C9: unwrapping a valid envelope with one byte of its tag or ciphertext
\* changed, or with the wrong unlock key, throws the authentication error
\* and returns no key.
C9_TamperedEnvelopeIsRejected ==
  (Unwrapped /\ TamperedOrWrongKey) =>
    /\ unwrap.threw
    /\ unwrap.err = "Unsupported state or unable to authenticate data"
    /\ unwrap.result = <<>>

\* A ciphertext byte was changed and the right key is used.
C9_Witness ==
  /\ Unwrapped
  /\ origin.kind = "tampered"
  /\ origin.at = IvLength + 1
  /\ Len(unwrap.encryptedData) = 2
  /\ unlockKey = origin.key
  /\ unwrap.threw

\* C17: an envelope that decodes to n >= 28 bytes is handed to decrypt as
\* IV = bytes 0..11, tag = the last 16 bytes, ciphertext = the n - 28 bytes
\* between them; the three parts, in that order, make up the envelope.
C17_EnvelopeSplit ==
  (Unwrapped /\ Len(unwrap.decoded) >= IvLength + TagLength) =>
    LET env == unwrap.decoded
        n == Len(env)
    IN /\ Base64Encode(env) = item
       /\ unwrap.decryptCalled
       /\ unwrap.iv = [j \in 1..IvLength |-> env[j]]
       /\ unwrap.tag = [j \in 1..TagLength |-> env[n - TagLength + j]]
       /\ unwrap.encryptedData =
            [j \in 1..(n - IvLength - TagLength) |-> env[IvLength + j]]
       /\ unwrap.iv \o unwrap.encryptedData \o unwrap.tag = env

\* An envelope with a ciphertext of MaxCipherLen bytes was split.
C17_Witness ==
  /\ Unwrapped
  /\ Len(unwrap.decoded) = IvLength + TagLength + MaxCipherLen
  /\ Len(unwrap.encryptedData) = MaxCipherLen

====
